---- MODULE Spec2Model ----
(***************************************************************************)
(* Model of libra.starspots.star: Spot construction, the Star's rotation   *)
(* state (spots_cartesian, rotations_applied) and the flux computation.    *)
(*                                                                         *)
(* Arithmetic is exact.  Lengths are fixed-point integers in units of      *)
(* 1/Unit stellar radius, angles are integers in quarter turns (so every   *)
(* sine and cosine is -1, 0 or 1 and a rotation maps lattice points to     *)
(* lattice points), times are integers in days and fluxes are integers in  *)
(* units of pi / FluxScale.  Floating-point rounding is not modelled.      *)
(***************************************************************************)
EXTENDS Integers, Sequences, FiniteSets, TLC

VARIABLES spots, spots_cartesian, spots_r, rotations_applied, contrast,
          pc, times, t0, i, prev_rot, fluxes, ret, hist, lastflux, made

vars == <<spots, spots_cartesian, spots_r, rotations_applied, contrast,
          pc, times, t0, i, prev_rot, fluxes, ret, hist, lastflux, made>>

----------------------------------------------------------------------------
(* Scales of the fixed-point representation and program constants.         *)

\* one stellar radius (stellar_radius=1, r=1) in coordinate units
Unit == 3
\* 2*pi in angle units (quarter turns)
Turn == 4
\* spot radii are in 1/RScale stellar radii
RScale == 10
\* contrast is in 1/CScale
CScale == 10
\* limb-darkening coefficients are in 1/LDScale
LDScale == 10000
\* u1 = 0.4987
u1 == 4987
\* u2 = 0.1772
u2 == 1772
\* rotation period of the modelled Star, in days
rotation_period == 4
\* the default contrast 0.7
DefaultContrast == 7

(* Bounds of the model.                                                    *)
MaxSpots == 2
MaxLen == 2
MaxRot == 2
MaxCoord == 3

----------------------------------------------------------------------------
(* numpy / astropy primitives, computed exactly on the lattice.            *)

Cos(a) == LET m == a % Turn IN
          IF m = 0 THEN 1 ELSE IF m = 2 THEN -1 ELSE 0

Sin(a) == LET m == a % Turn IN
          IF m = 1 THEN 1 ELSE IF m = 3 THEN -1 ELSE 0

IsSquare(n) == n >= 0 /\ \E k \in 0..n : k * k = n

\* np.sqrt on the perfect squares the model's inputs produce
Sqrt(n) == CHOOSE k \in 0..n : k * k = n

\* astropy rotation_matrix(angle, axis), axis 1 = x, 2 = y, 3 = z
rotation_matrix(angle, axis) ==
    LET c == Cos(angle)
        s == Sin(angle)
        a1 == (axis % 3) + 1
        a2 == ((axis + 1) % 3) + 1
    IN [p \in 1..3 |-> [q \in 1..3 |->
          IF p = axis /\ q = axis THEN 1
          ELSE IF p = a1 /\ q = a1 THEN c
          ELSE IF p = a1 /\ q = a2 THEN s
          ELSE IF p = a2 /\ q = a1 THEN -s
          ELSE IF p = a2 /\ q = a2 THEN c
          ELSE 0]]

matrix_product(A, B) ==
    [p \in 1..3 |-> [q \in 1..3 |->
        A[p][1] * B[1][q] + A[p][2] * B[2][q] + A[p][3] * B[3][q]]]

\* CartesianRepresentation.transform(matrix) of one position
transform(v, M) ==
    [x |-> M[1][1] * v.x + M[1][2] * v.y + M[1][3] * v.z,
     y |-> M[2][1] * v.x + M[2][2] * v.y + M[2][3] * v.z,
     z |-> M[3][1] * v.x + M[3][2] * v.y + M[3][3] * v.z]

----------------------------------------------------------------------------
(* Spot                                                                    *)

\* a faulty Spot.__init__ that derives z from x alone (rounded down to the
\* lattice)
SpotInit_dropY(x, y, z, r, stellar_radius) ==
    LET n == stellar_radius * stellar_radius - x * x
        zz == IF z = <<>>
              THEN CHOOSE k \in 0..n : k * k <= n /\ (k + 1) * (k + 1) > n
              ELSE z[1]
    IN [cartesian |-> [x |-> x, y |-> y, z |-> zz], r |-> r]

\* Spot.__init__; z is <<>> when omitted and <<k>> when given
SpotInit(x, y, z, r, stellar_radius) ==
    LET zz == IF z = <<>>
              THEN Sqrt(stellar_radius * stellar_radius - x * x - y * y)
              ELSE z[1]
    IN [cartesian |-> [x |-> x, y |-> y, z |-> zz], r |-> r]

\* latlon_to_cartesian; the unit spherical direction is scaled by Unit
latlon_to_cartesian(latitude, longitude, stellar_inclination) ==
    LET c == [x |-> Unit * Cos(latitude) * Cos(longitude),
              y |-> Unit * Cos(latitude) * Sin(longitude),
              z |-> Unit * Sin(latitude)]
        rotate_about_z == rotation_matrix(1, 3)
        rotate_is == rotation_matrix(stellar_inclination, 2)
        transform_matrix == matrix_product(rotate_about_z, rotate_is)
    IN transform(c, transform_matrix)

\* Spot.from_latlon (inclination 90 deg is one quarter turn)
from_latlon(latitude, longitude, radius) ==
    LET cartesian == latlon_to_cartesian(latitude, longitude, 1)
    IN SpotInit(cartesian.x, cartesian.y, <<cartesian.z>>, radius, Unit)

\* the values draw_random_sunspot_latitudes can return on the lattice
SunspotLatitudes == {-1, 0, 1}

\* the values draw_random_sunspot_radii can return
SunspotRadii == {1}

\* Spot.from_sunspot_distribution with the three random draws as inputs
from_sunspot_distribution(lat, lon, radius, radius_multiplier) ==
    LET cartesian == latlon_to_cartesian(lat, lon, 1)
    IN SpotInit(cartesian.x, cartesian.y, <<cartesian.z>>,
                radius * radius_multiplier, Unit)

----------------------------------------------------------------------------
(* Star: construction, limb darkening and the instantaneous flux.          *)

\* pi / FluxScale is the unit of flux
FluxScale == 6 * RScale * RScale * Unit * Unit * Unit * LDScale * CScale

\* Star.__init__: the working array is derived from the spot sequence
StarInit(sp) ==
    [spots |-> sp,
     spots_cartesian |-> [j \in 1..Len(sp) |-> sp[j].cartesian],
     spots_r |-> [j \in 1..Len(sp) |-> sp[j].r],
     rotations_applied |-> 0]

\* Star.unspotted_flux = 2 pi int_0^1 r I_norm(r) dr = pi (1 - u1/3 - u2/6)
unspotted_flux ==
    (6 * LDScale - 2 * u1 - u2) * RScale * RScale * Unit * Unit * Unit * CScale

\* limb_darkening(r) / limb_darkening(0), times LDScale * Unit^2; the
\* argument is r^2 in coordinate units, which is all the law reads of r
limb_darkening_normed(rsq) ==
    LET mu == Sqrt(Unit * Unit - rsq)
    IN LDScale * Unit * Unit - u1 * Unit * (Unit - mu)
       - u2 * (Unit - mu) * (Unit - mu)

\* a faulty mask that lets far-side spots through
visible_all(v) == TRUE

\* the mask self.spots_cartesian.z > 0
visible(v) == v.z > 0

\* spot_flux of one spot of the masked arrays
spot_flux(v, r, c) ==
    LET rsq == v.x * v.x + v.y * v.y
        area == r * r * Sqrt(Unit * Unit - rsq)
    IN -1 * 6 * area * limb_darkening_normed(rsq) * (CScale - c)

RECURSIVE SumSpotFlux(_, _, _, _)
\* np.sum(spot_flux) over the visible rows 1..n
SumSpotFlux(cart, rs, c, n) ==
    IF n = 0 THEN 0
    ELSE SumSpotFlux(cart, rs, c, n - 1)
         + (IF visible(cart[n]) THEN spot_flux(cart[n], rs[n], c) ELSE 0)

\* Star._instantaneous_flux on the geometry cart
instantaneous_flux(cart, rs, c) ==
    unspotted_flux + SumSpotFlux(cart, rs, c, Len(cart))

----------------------------------------------------------------------------
(* Star.rotate and Star.derotate as state transformers on the pair         *)
(* [cart |-> spots_cartesian, ra |-> rotations_applied].                   *)

RotState == [cart |-> spots_cartesian, ra |-> rotations_applied]

\* a faulty rotate that moves the spots but does not accumulate the angle
rotate_noacc(st, angle) ==
    LET transform_matrix == rotation_matrix(angle, 2)
    IN [cart |-> [j \in 1..Len(st.cart) |->
                    transform(st.cart[j], transform_matrix)],
        ra |-> st.ra]

\* a faulty rotate that assigns the angle where the code accumulates it
rotate_assign(st, angle) ==
    LET transform_matrix == rotation_matrix(angle, 2)
    IN [cart |-> [j \in 1..Len(st.cart) |->
                    transform(st.cart[j], transform_matrix)],
        ra |-> angle]

\* Star.rotate(angle)
rotate(st, angle) ==
    LET transform_matrix == rotation_matrix(angle, 2)
    IN [cart |-> [j \in 1..Len(st.cart) |->
                    transform(st.cart[j], transform_matrix)],
        ra |-> st.ra + angle]

\* a faulty derotate that resets the accumulator without undoing the rotation
derotate_reset_only(st) == [cart |-> st.cart, ra |-> 0]

\* a faulty derotate that rotates on by the accumulated angle: the sign is lost
derotate_wrong_sign(st) ==
    LET r1 == rotate(st, st.ra)
    IN [cart |-> r1.cart, ra |-> 0]

\* Star.derotate()
derotate(st) ==
    LET r1 == rotate(st, -st.ra)
    IN [cart |-> r1.cart, ra |-> 0]

\* rotational_phase of time t in flux(times, t0), in quarter turns
rotational_phase(t, t0v) ==
    (((t - t0v) % rotation_period) * Turn) \div rotation_period

\* a faulty increment that rotates by the full phase at every sample
increment_full(phase, prev) == phase

\* the angle flux passes to rotate: rotational_phase - prev_rot
increment(phase, prev) == phase - prev

----------------------------------------------------------------------------
(* The calls a client makes on one Star.  hist records the call in         *)
(* progress or last completed, with the rotation state it found; lastflux  *)
(* keeps the array the previous flux(times, t0) call returned when the     *)
(* call in progress repeats it with the same arguments.                    *)

NoCall == [op |-> "init", angle |-> 0, args |-> <<>>,
           pre |-> [cart |-> <<>>, ra |-> 0]]

NoFlux == [valid |-> FALSE, ret |-> <<>>]

NoMade == [path |-> "none", x |-> 0, y |-> 0, z |-> <<>>, sr |-> 0]

\* the angles a client passes to rotate, in quarter turns
Angles == (0 - MaxRot)..MaxRot

\* the sample times, in days; with T0Vals they give every phase
TimeVals == {0, 1, 3}

T0Vals == {0, 1}

Contrasts == {DefaultContrast, CScale}

RECURSIVE SeqsUpTo(_, _)
\* the sequences over S of length at most n
SeqsUpTo(S, n) ==
    IF n = 0 THEN {<<>>}
    ELSE LET shorter == SeqsUpTo(S, n - 1)
         IN shorter \cup {Append(q, e) : q \in shorter, e \in S}

\* the spots a Star of the model is built from, one per construction path:
\* a near-side spot with z derived, a spot given with explicit coordinates
\* that are off the sphere, and a spot on the limb placed by latitude and
\* longitude (a quarter turn brings it to the sub-observer point)
StarSpotPool ==
    {SpotInit(1, 2, <<>>, 2, Unit),
     SpotInit(Unit, 0, <<Unit>>, 1, Unit),
     from_latlon(0, 1, 1)}

Init ==
    /\ spots \in SeqsUpTo(StarSpotPool, MaxSpots)
    /\ contrast \in Contrasts
    /\ spots_cartesian = StarInit(spots).spots_cartesian
    /\ spots_r = StarInit(spots).spots_r
    /\ rotations_applied = StarInit(spots).rotations_applied
    /\ pc = "idle"
    /\ times = <<>>
    /\ t0 = 0
    /\ i = 0
    /\ prev_rot = 0
    /\ fluxes = <<>>
    /\ ret = <<>>
    /\ hist = NoCall
    /\ lastflux = NoFlux
    /\ made = NoMade

\* a faulty rotate call that also writes the rotated positions back into the
\* Spot objects
CallRotate_writeback(angle) ==
    /\ pc = "idle"
    /\ rotations_applied + angle \in (0 - MaxRot)..MaxRot
    /\ spots_cartesian' = rotate(RotState, angle).cart
    /\ rotations_applied' = rotate(RotState, angle).ra
    /\ spots' = [j \in 1..Len(spots) |->
                   [spots[j] EXCEPT !.cartesian = spots_cartesian'[j]]]
    /\ hist' = [op |-> "rotate", angle |-> angle, args |-> <<>>,
                pre |-> RotState]
    /\ lastflux' = NoFlux
    /\ ret' = <<>>
    /\ UNCHANGED <<spots_r, contrast, pc, times, t0, i, prev_rot,
                   fluxes, made>>

\* a client call star.rotate(angle)
CallRotate(angle) ==
    /\ pc = "idle"
    /\ rotations_applied + angle \in (0 - MaxRot)..MaxRot
    /\ spots_cartesian' = rotate(RotState, angle).cart
    /\ rotations_applied' = rotate(RotState, angle).ra
    /\ hist' = [op |-> "rotate", angle |-> angle, args |-> <<>>,
                pre |-> RotState]
    /\ lastflux' = NoFlux
    /\ ret' = <<>>
    /\ UNCHANGED <<spots, spots_r, contrast, pc, times, t0, i, prev_rot,
                   fluxes, made>>

\* a client call star.derotate()
CallDerotate ==
    /\ pc = "idle"
    /\ spots_cartesian' = derotate(RotState).cart
    /\ rotations_applied' = derotate(RotState).ra
    /\ hist' = [op |-> "derotate", angle |-> 0, args |-> <<>>,
                pre |-> RotState]
    /\ lastflux' = NoFlux
    /\ ret' = <<>>
    /\ UNCHANGED <<spots, spots_r, contrast, pc, times, t0, i, prev_rot,
                   fluxes, made>>

\* a faulty flux() that restores the original orientation before measuring
FluxNone_derotating ==
    /\ pc = "idle"
    /\ spots_cartesian' = derotate(RotState).cart
    /\ rotations_applied' = derotate(RotState).ra
    /\ ret' = <<instantaneous_flux(spots_cartesian', spots_r, contrast)>>
    /\ hist' = [op |-> "flux_none", angle |-> 0, args |-> <<>>,
                pre |-> RotState]
    /\ lastflux' = NoFlux
    /\ UNCHANGED <<spots, spots_r, contrast, pc, times, t0, i, prev_rot,
                   fluxes, made>>

\* flux() with times absent: the early return
FluxNone ==
    /\ pc = "idle"
    /\ ret' = <<instantaneous_flux(spots_cartesian, spots_r, contrast)>>
    /\ hist' = [op |-> "flux_none", angle |-> 0, args |-> <<>>,
                pre |-> RotState]
    /\ lastflux' = NoFlux
    /\ UNCHANGED <<spots, spots_cartesian, spots_r, rotations_applied,
                   contrast, pc, times, t0, i, prev_rot, fluxes, made>>

\* flux(ts, t0v): entry, fluxes = zeros(len(times)), prev_rot = 0
FluxBegin(ts, t0v) ==
    /\ pc = "idle"
    /\ pc' = "loop"
    /\ times' = ts
    /\ t0' = t0v
    /\ i' = 0
    /\ prev_rot' = 0
    /\ fluxes' = [j \in 1..Len(ts) |-> 0]
    /\ hist' = [op |-> "flux", angle |-> 0, args |-> <<ts, t0v>>,
                pre |-> RotState]
    /\ lastflux' = IF hist.op = "flux" /\ hist.args = <<ts, t0v>>
                   THEN [valid |-> TRUE, ret |-> ret]
                   ELSE NoFlux
    /\ ret' = <<>>
    /\ UNCHANGED <<spots, spots_cartesian, spots_r, rotations_applied,
                   contrast, made>>

\* one iteration of the loop over enumerate(times)
FluxStep ==
    /\ pc = "loop"
    /\ i < Len(times)
    /\ LET t == times[i + 1]
           phase == rotational_phase(t, t0)
           st == rotate(RotState, increment(phase, prev_rot))
       IN /\ spots_cartesian' = st.cart
          /\ rotations_applied' = st.ra
          /\ fluxes' = [fluxes EXCEPT ![i + 1] =
                          instantaneous_flux(st.cart, spots_r, contrast)]
          /\ prev_rot' = phase
    /\ i' = i + 1
    /\ UNCHANGED <<spots, spots_r, contrast, pc, times, t0, ret, hist,
                   lastflux, made>>

\* after the loop: self.derotate() and return fluxes
FluxEnd ==
    /\ pc = "loop"
    /\ i = Len(times)
    /\ spots_cartesian' = derotate(RotState).cart
    /\ rotations_applied' = derotate(RotState).ra
    /\ ret' = fluxes
    /\ pc' = "idle"
    /\ times' = <<>>
    /\ t0' = 0
    /\ i' = 0
    /\ prev_rot' = 0
    /\ fluxes' = <<>>
    /\ hist' = [hist EXCEPT !.pre = NoCall.pre]
    /\ lastflux' = NoFlux
    /\ UNCHANGED <<spots, spots_r, contrast, made>>

Next ==
    \/ \E angle \in Angles : CallRotate(angle)
    \/ CallDerotate
    \/ FluxNone
    \/ \E ts \in SeqsUpTo(TimeVals, MaxLen), t0v \in T0Vals : FluxBegin(ts, t0v)
    \/ FluxStep
    \/ FluxEnd

Spec == Init /\ [][Next]_vars

----------------------------------------------------------------------------
(* Spot construction on its own: a constructor call builds one Spot from   *)
(* inputs drawn from the lattice; made records the path and its inputs.    *)

Coords == (0 - MaxCoord)..MaxCoord

\* the stellar_radius values passed to Spot(...): the default and 5/3
StellarRadii == {Unit, 5}

SpotRadii == {1, 2}

Longitudes == 0..(Turn - 1)

Latitudes == {-1, 0, 1}

SpotInitState ==
    /\ spots = <<>>
    /\ made = NoMade
    /\ contrast = DefaultContrast
    /\ spots_cartesian = <<>>
    /\ spots_r = <<>>
    /\ rotations_applied = 0
    /\ pc = "build"
    /\ times = <<>>
    /\ t0 = 0
    /\ i = 0
    /\ prev_rot = 0
    /\ fluxes = <<>>
    /\ ret = <<>>
    /\ hist = NoCall
    /\ lastflux = NoFlux

\* one constructor call per behaviour; the Star fields are not involved
StarUnchanged ==
    /\ pc = "build"
    /\ pc' = "built"
    /\ UNCHANGED <<spots_cartesian, spots_r, rotations_applied, contrast,
                   times, t0, i, prev_rot, fluxes, ret, hist, lastflux>>

\* Spot(x=x, y=y, z=z, r=r, stellar_radius=sr)
NewSpot(x, y, z, r, sr) ==
    /\ spots' = <<SpotInit(x, y, <<z>>, r, sr)>>
    /\ made' = [path |-> "xyz", x |-> x, y |-> y, z |-> <<z>>, sr |-> sr]
    /\ StarUnchanged

\* Spot(x=x, y=y, r=r, stellar_radius=sr) with x^2 + y^2 <= sr^2
NewSpotNoZ(x, y, r, sr) ==
    /\ IsSquare(sr * sr - x * x - y * y)
    /\ spots' = <<SpotInit(x, y, <<>>, r, sr)>>
    /\ made' = [path |-> "noz", x |-> x, y |-> y, z |-> <<>>, sr |-> sr]
    /\ StarUnchanged

\* Spot.from_latlon(lat, lon, radius)
NewFromLatLon(lat, lon, radius) ==
    /\ spots' = <<from_latlon(lat, lon, radius)>>
    /\ made' = [path |-> "latlon", x |-> lat, y |-> lon, z |-> <<>>,
                sr |-> Unit]
    /\ StarUnchanged

\* Spot.from_sunspot_distribution(radius_multiplier=m) with its draws
NewFromSunspot(lat, lon, radius, m) ==
    /\ spots' = <<from_sunspot_distribution(lat, lon, radius, m)>>
    /\ made' = [path |-> "sunspot", x |-> lat, y |-> lon, z |-> <<>>,
                sr |-> Unit]
    /\ StarUnchanged

SpotNext ==
    \/ \E x \in Coords, y \in Coords, z \in Coords, r \in SpotRadii,
          sr \in StellarRadii : NewSpot(x, y, z, r, sr)
    \/ \E x \in Coords, y \in Coords, r \in SpotRadii, sr \in StellarRadii :
          NewSpotNoZ(x, y, r, sr)
    \/ \E lat \in Latitudes, lon \in Longitudes, radius \in SpotRadii :
          NewFromLatLon(lat, lon, radius)
    \/ \E lat \in SunspotLatitudes, lon \in Longitudes,
          radius \in SunspotRadii, m \in {1, 2} :
          NewFromSunspot(lat, lon, radius, m)

SpotSpec == SpotInitState /\ [][SpotNext]_vars

OnSphere(v, sr) == v.x * v.x + v.y * v.y + v.z * v.z = sr * sr

----------------------------------------------------------------------------
(* Vocabulary of the claims.                                               *)

\* the spot geometry the Star had when it was constructed
ConstructionCartesian == StarInit(spots).spots_cartesian

\* the step on which flux(times, t0) returns
FluxReturns == pc = "loop" /\ pc' = "idle"

\* the loop of flux(times, t0) has processed every sample
LoopDone == pc = "loop" /\ i = Len(times)

\* the construction-time geometry turned about Y by the phase of time t
GeometryAtPhase(t, t0v) ==
    rotate([cart |-> ConstructionCartesian, ra |-> 0],
           rotational_phase(t, t0v)).cart

SomeSpotVisible == \E j \in 1..Len(spots_cartesian) : spots_cartesian[j].z > 0

----------------------------------------------------------------------------
(* C1: when flux(times, t0) is called on a Star whose rotations_applied is *)
(* zero, then for every times sequence (empty, sorted, unsorted, with      *)
(* repeats) and every t0 the call returns with rotations_applied zero and  *)
(* every position of spots_cartesian at its construction-time value.       *)
C1_FluxRestoresFromZero ==
    [][(FluxReturns /\ hist.pre.ra = 0)
          => /\ rotations_applied' = 0
             /\ spots_cartesian' = ConstructionCartesian]_vars

\* an unsorted two-sample call from an unrotated Star, about to return with
\* the spots turned away from where they were constructed
C1_Witness ==
    /\ LoopDone
    /\ hist.pre.ra = 0
    /\ Len(times) = 2
    /\ times[1] > times[2]
    /\ rotations_applied # 0
    /\ spots_cartesian # ConstructionCartesian

(* C2: every call flux(times) leaves the rotation state exactly as it      *)
(* found it, also when the caller had applied a rotation that was not      *)
(* derotated: rotations_applied and spots_cartesian after the call equal   *)
(* their values immediately before it.                                     *)
C2_FluxLeavesStateAsFound ==
    [][FluxReturns
          => /\ rotations_applied' = hist.pre.ra
             /\ spots_cartesian' = hist.pre.cart]_vars

(* C3: after any sequence of rotate calls with signed angles (possibly     *)
(* empty, possibly with earlier derotate calls), derotate() leaves         *)
(* rotations_applied zero and spots_cartesian at the construction-time     *)
(* geometry.                                                               *)
C3_DerotateRestores ==
    hist.op = "derotate"
       => /\ rotations_applied = 0
          /\ spots_cartesian = ConstructionCartesian

\* derotate() was called on a Star turned away from its construction
C3_Witness ==
    /\ hist.op = "derotate"
    /\ hist.pre.ra # 0
    /\ hist.pre.cart # ConstructionCartesian
    /\ spots_cartesian = ConstructionCartesian

(* C4: rotate(a) followed immediately by rotate(-a) restores               *)
(* spots_cartesian and rotations_applied to the values they had before the *)
(* first of the two calls.  (hist holds the first call while the second    *)
(* one takes its step.)                                                    *)
C4_RotateThenInverse ==
    [][(hist.op = "rotate" /\ hist'.op = "rotate"
           /\ hist'.angle = 0 - hist.angle)
          => /\ spots_cartesian' = hist.pre.cart
             /\ rotations_applied' = hist.pre.ra]_vars

\* a non-zero rotate has just undone the rotation that preceded it, on a
\* Star that was itself rotated before the pair
C4_Witness ==
    /\ hist.op = "rotate"
    /\ hist.angle # 0
    /\ rotations_applied # 0
    /\ hist.pre.ra = rotations_applied - hist.angle
    /\ hist.pre.cart # spots_cartesian

(* C5: calling flux(times, t0) twice in a row with the same times and t0   *)
(* returns the same array both times; the array does not depend on the     *)
(* flux calls made before.  (lastflux is the array the previous identical  *)
(* call returned, fluxes the array about to be returned.)                  *)
C5_FluxTwiceSameArray ==
    (LoopDone /\ lastflux.valid) => fluxes = lastflux.ret

\* the Star has contrast < 1 and spots of positive radius
C7_Precondition ==
    /\ contrast < CScale
    /\ \A j \in 1..Len(spots_r) : spots_r[j] > 0

\* the sample just recorded is unspotted exactly when no spot is visible
C7_SampleRule ==
    /\ (fluxes[i] = unspotted_flux) <=> ~SomeSpotVisible
    /\ SomeSpotVisible => fluxes[i] < unspotted_flux

C8_FluxNoneReadsOnly ==
    hist.op = "flux_none"
       => /\ RotState = hist.pre
          /\ ret = <<instantaneous_flux(hist.pre.cart, spots_r, contrast)>>

\* flux() on a rotated Star, whose value differs from the unrotated one
C8_Witness ==
    /\ hist.op = "flux_none"
    /\ rotations_applied # 0
    /\ ret # <<instantaneous_flux(ConstructionCartesian, spots_r, contrast)>>

\* row j of the working arrays belongs to spot j
C9_RowsParallel ==
    /\ Len(spots_cartesian) = Len(spots)
    /\ Len(spots_r) = Len(spots)
    /\ \A j \in 1..Len(spots) :
          /\ spots_r[j] = spots[j].r
          /\ spots_cartesian[j].y = spots[j].cartesian.y
          /\ spots_cartesian[j].x * spots_cartesian[j].x
             + spots_cartesian[j].z * spots_cartesian[j].z
               = spots[j].cartesian.x * spots[j].cartesian.x
                 + spots[j].cartesian.z * spots[j].cartesian.z

(* C9: rotate, derotate and flux change only the position values of        *)
(* spots_cartesian and rotations_applied: the spot sequence, each Spot's   *)
(* stored coordinates and radius, and spots_r never change, and            *)
(* spots_cartesian keeps the length and index order of the spot sequence   *)
(* (row j keeps the height y and the distance from the rotation axis of    *)
(* spot j, and spots_r[j] is spot j's radius).                             *)
C9_OnlyWorkingCopyChanges ==
    /\ []C9_RowsParallel
    /\ [][spots' = spots /\ spots_r' = spots_r]_vars

\* two different spots, moved by a rotation
C9_Witness ==
    /\ Len(spots) = 2
    /\ spots[1] # spots[2]
    /\ rotations_applied # 0
    /\ spots_cartesian[1] # spots[1].cartesian
    /\ spots_cartesian[2] # spots[2].cartesian

(* C10: in flux(times, t0) called with rotations_applied zero, after the   *)
(* i-th incremental rotate rotations_applied equals phase(times[i]), and   *)
(* the flux stored at every position j is the instantaneous flux of the    *)
(* construction-time geometry turned about Y by phase(times[j]), whatever  *)
(* the order of times.                                                     *)
C10_SampleAtItsPhase ==
    (pc = "loop" /\ hist.pre.ra = 0)
       => /\ i >= 1 => rotations_applied = rotational_phase(times[i], t0)
          /\ \A j \in 1..i :
                fluxes[j] = instantaneous_flux(GeometryAtPhase(times[j], t0),
                                               spots_r, contrast)

\* two samples given out of order, with different fluxes
C10_Witness ==
    /\ pc = "loop"
    /\ i = 2
    /\ hist.pre.ra = 0
    /\ times[1] > times[2]
    /\ rotational_phase(times[2], t0) # 0
    /\ fluxes[1] # fluxes[2]

\* the geometry cart0 turned about Y by the single angle a
TurnedAboutY(cart0, a) ==
    [j \in 1..Len(cart0) |-> transform(cart0[j], rotation_matrix(a, 2))]

(* C11: in every state reachable from construction by rotate, derotate and *)
(* flux calls, the states inside the loop of flux(times) included,         *)
(* rotations_applied is the net signed rotation about Y that maps the      *)
(* construction-time geometry to the current spots_cartesian; and it is    *)
(* zero whenever derotate has just restored the geometry (after a client   *)
(* derotate() and after flux(times) returns).                              *)
C11_RotationsAppliedIsNetRotation ==
    /\ spots_cartesian = TurnedAboutY(ConstructionCartesian, rotations_applied)
    /\ (pc = "idle" /\ hist.op \in {"derotate", "flux"})
          => rotations_applied = 0

\* inside the loop of a flux call made on a rotated Star, with the spots
\* turned away from their construction-time places
C11_Witness ==
    /\ pc = "loop"
    /\ i >= 1
    /\ hist.pre.ra # 0
    /\ rotations_applied % Turn # 0
    /\ Len(spots) = 2
    /\ spots_cartesian # ConstructionCartesian

----------------------------------------------------------------------------
(* C6: every Spot produced by any of the three construction paths          *)
(* (explicit x, y, z; z omitted; from_latlon / from_sunspot_distribution)  *)
(* stores a position on the sphere of the given stellar radius.            *)
(* As stated this fails: explicit coordinates are stored unchecked.        *)
C6_AllPathsOnSphere ==
    made.path # "none" => OnSphere(spots[1].cartesian, made.sr)

(* C6 as amended: a Spot built with z omitted (x^2 + y^2 <= R^2) or from   *)
(* latitude and longitude lies on the sphere of its stellar radius; a Spot *)
(* built from explicit x, y, z stores exactly the coordinates given.       *)
C6_DerivedPathsOnSphere ==
    /\ made.path \in {"noz", "latlon", "sunspot"}
          => OnSphere(spots[1].cartesian, made.sr)
    /\ made.path \in {"noz", "xyz"}
          => spots[1].cartesian.x = made.x /\ spots[1].cartesian.y = made.y
    /\ made.path = "xyz" => spots[1].cartesian.z = made.z[1]

\* a near-side spot off both axes whose z was derived
C6_Witness ==
    /\ made.path = "noz"
    /\ made.x # 0
    /\ made.y # 0
    /\ spots[1].cartesian.z > 0


====
